---- MODULE Spec2Model ----
(***************************************************************************)
(* Model of the deadline planner: scheduler.py (Task and                   *)
(* schedule_minimize_lateness, the Earliest Deadline First sequencer) and  *)
(* the part of app.py that keeps st.session_state['tasks'] and passes it   *)
(* to the sequencer.                                                       *)
(*                                                                         *)
(* Representation.  A datetime is an integer number of seconds counted     *)
(* from 2025-10-19 08:00, a timedelta an integer number of seconds, and a  *)
(* float of hours (duration_hours, lateness_hours, the two aggregates) an  *)
(* integer number of hours.  Every datetime of the model is a whole hour   *)
(* and every duration a whole number of hours, so timedelta(hours=h) and   *)
(* total_seconds() / 3600.0 are exact; fractions of an hour and the        *)
(* rounding of floats are outside the model.                               *)
(*                                                                         *)
(* The caller's list `tasks` is a sequence of Task objects; a reference to *)
(* a Task is its position in that list, so `ordered_tasks` and the 'task'  *)
(* entry of a result item are positions in `tasks`.                        *)
(***************************************************************************)
EXTENDS Integers, Sequences, FiniteSets, TLC

VARIABLES
    tasks,           \* the list the caller passes to schedule_minimize_lateness
    tasks_before,    \* history: that list as the caller built it, before the call
    start_time,      \* the start_time argument
    ordered_tasks,   \* local of schedule_minimize_lateness (line 38)
    current_time,    \* local (line 40)
    results,         \* local (line 41)
    total_lateness,  \* local (line 42), in hours
    max_lateness,    \* local (line 43), a timedelta
    idx,             \* position of the for loop of line 45 in ordered_tasks
    result,          \* <<>> while no call has returned, else <<the returned dict>>
    pc,              \* "idle" | "loop" | "done"
    memo,            \* history: <<>> or <<an earlier call's tasks, start_time and result,
                     \* and whether a call has been made since>>
    session_tasks    \* st.session_state['tasks'] of app.py

vars == <<tasks, tasks_before, start_time, ordered_tasks, current_time, results,
          total_lateness, max_lateness, idx, result, pc, memo, session_tasks>>

locals == <<ordered_tasks, current_time, results, total_lateness, max_lateness, idx>>

(***************************************************************************)
(* Bounds of the model.                                                    *)
(***************************************************************************)
MaxTasks == 3

MaxSessionTasks == 4

MaxId == 5

\* duration_hours of the tasks handed to the sequencer; -1 is a malformed Task.
Durations == (0 - 1)..2

\* Deadlines and start times, whole hours after the epoch of the model.
DeadlineHours == 0..2

StartHours == 0..1

SecondsPerHour == 3600

\* datetime(...) of a whole hour h after the epoch.
at_hour(h) == h * SecondsPerHour

Deadlines == {at_hour(h) : h \in DeadlineHours}

StartTimes == {at_hour(h) : h \in StartHours}

\* 'média' is written "media": module text is ASCII.
Priorities == <<"alta", "media", "baixa">>

(***************************************************************************)
(* scheduler.py                                                            *)
(***************************************************************************)
\* dataclass Task
Task(id, name, duration_hours, deadline, priority, client) ==
    [id |-> id, name |-> name, duration_hours |-> duration_hours,
     deadline |-> deadline, priority |-> priority, client |-> client]

\* timedelta(hours=h)
timedelta(hours) == hours * SecondsPerHour

\* td.total_seconds()
total_seconds(td) == td

\* td.total_seconds() / 3600.0
hours_of(td) == total_seconds(td) \div SecondsPerHour

\* Mutant of key: sorted(..., reverse=True), the latest deadline first.
key_latest_first(t) == 0 - t.deadline

\* Mutant of key: the priority breaks ties between equal deadlines.
key_then_priority(t) ==
    t.deadline * 3 + (CHOOSE r \in 1..3 : Priorities[r] = t.priority)

\* key=lambda t: t.deadline
key(t) == t.deadline

\* Mutant of insort: x goes before the references of equal key (an unstable sort).
RECURSIVE insort_before_equal(_, _, _)
insort_before_equal(ts, s, x) ==
    IF s = <<>> THEN <<x>>
    ELSE IF key(ts[Head(s)]) < key(ts[x])
         THEN <<Head(s)>> \o insort_before_equal(ts, Tail(s), x)
         ELSE <<x>> \o s

\* One insertion of the stable sort: reference x goes after every reference
\* already placed whose key is less than or equal to its own.
RECURSIVE insort(_, _, _)
insort(ts, s, x) ==
    IF s = <<>> THEN <<x>>
    ELSE IF key(ts[Head(s)]) <= key(ts[x])
         THEN <<Head(s)>> \o insort(ts, Tail(s), x)
         ELSE <<x>> \o s

RECURSIVE sorted_upto(_, _)
sorted_upto(ts, n) ==
    IF n = 0 THEN <<>> ELSE insort(ts, sorted_upto(ts, n - 1), n)

\* sorted(tasks, key=lambda t: t.deadline): a new list of references to the
\* same Task objects, stable.
sorted(ts) == sorted_upto(ts, Len(ts))

\* finish_time = current_time + timedelta(hours=task.duration_hours)
finish_time(now, task) == now + timedelta(task.duration_hours)

\* Mutant of lateness_td: the difference is not floored at timedelta(0).
lateness_td_unclamped(finish, task) == finish - task.deadline

\* lateness_td = max(timedelta(0), finish_time - task.deadline)
lateness_td(finish, task) ==
    IF finish - task.deadline > 0 THEN finish - task.deadline ELSE 0

\* Mutant of updated_max: the comparison of line 58 is dropped.
updated_max_last(current_max, td) == td

\* if lateness_td > max_lateness: max_lateness = lateness_td
updated_max(current_max, td) == IF td > current_max THEN td ELSE current_max

\* Mutant of Invoke: total_lateness lives outside the call and is not set to 0.0.
InvokeKeepTotal(ts, st) ==
    /\ pc \in {"idle", "done"}
    /\ tasks' = ts
    /\ tasks_before' = ts
    /\ start_time' = st
    /\ ordered_tasks' = sorted(ts)
    /\ current_time' = st
    /\ results' = <<>>
    /\ total_lateness' = total_lateness
    /\ max_lateness' = 0
    /\ idx' = 1
    /\ result' = <<>>
    /\ pc' = "loop"

\* Mutant of Invoke: results is a list shared by all calls (a mutable default)
\* and is not emptied.
InvokeKeepResults(ts, st) ==
    /\ pc \in {"idle", "done"}
    /\ tasks' = ts
    /\ tasks_before' = ts
    /\ start_time' = st
    /\ ordered_tasks' = sorted(ts)
    /\ current_time' = st
    /\ results' = results
    /\ total_lateness' = 0
    /\ max_lateness' = 0
    /\ idx' = 1
    /\ result' = <<>>
    /\ pc' = "loop"

\* Mutant of Invoke: tasks.sort(key=...) in place of sorted(tasks, key=...).
InvokeSortInPlace(ts, st) ==
    /\ pc \in {"idle", "done"}
    /\ tasks' = [i \in 1..Len(ts) |-> ts[sorted(ts)[i]]]
    /\ tasks_before' = ts
    /\ start_time' = st
    /\ ordered_tasks' = [i \in 1..Len(ts) |-> i]
    /\ current_time' = st
    /\ results' = <<>>
    /\ total_lateness' = 0
    /\ max_lateness' = 0
    /\ idx' = 1
    /\ result' = <<>>
    /\ pc' = "loop"

\* The call and lines 38-43: the arguments are bound and every local assigned.
Invoke(ts, st) ==
    /\ pc \in {"idle", "done"}
    /\ tasks' = ts
    /\ tasks_before' = ts
    /\ start_time' = st
    /\ ordered_tasks' = sorted(ts)
    /\ current_time' = st
    /\ results' = <<>>
    /\ total_lateness' = 0
    /\ max_lateness' = 0
    /\ idx' = 1
    /\ result' = <<>>
    /\ pc' = "loop"

\* Mutant of LoopStep: line 61 is missing, the running clock does not advance.
LoopStepNoAdvance ==
    /\ pc = "loop"
    /\ idx <= Len(ordered_tasks)
    /\ LET task == tasks[ordered_tasks[idx]]
           finish == finish_time(current_time, task)
           late == lateness_td(finish, task)
           lateness_hours == hours_of(late)
       IN  /\ results' = Append(results,
                  [task |-> ordered_tasks[idx], start |-> current_time,
                   finish |-> finish, lateness_hours |-> lateness_hours])
           /\ total_lateness' = total_lateness + lateness_hours
           /\ max_lateness' = updated_max(max_lateness, late)
           /\ current_time' = current_time
    /\ idx' = idx + 1
    /\ UNCHANGED <<tasks, tasks_before, start_time, ordered_tasks, result, pc,
                   memo, session_tasks>>

\* One iteration of the loop of lines 45-61.
LoopStep ==
    /\ pc = "loop"
    /\ idx <= Len(ordered_tasks)
    /\ LET task == tasks[ordered_tasks[idx]]
           finish == finish_time(current_time, task)
           late == lateness_td(finish, task)
           lateness_hours == hours_of(late)
       IN  /\ results' = Append(results,
                  [task |-> ordered_tasks[idx], start |-> current_time,
                   finish |-> finish, lateness_hours |-> lateness_hours])
           /\ total_lateness' = total_lateness + lateness_hours
           /\ max_lateness' = updated_max(max_lateness, late)
           /\ current_time' = finish
    /\ idx' = idx + 1
    /\ UNCHANGED <<tasks, tasks_before, start_time, ordered_tasks, result, pc,
                   memo, session_tasks>>

\* Lines 63-67: the loop is exhausted and the dict is returned.
Return ==
    /\ pc = "loop"
    /\ idx > Len(ordered_tasks)
    /\ result' = <<[ordered |-> results,
                    total_lateness_hours |-> total_lateness,
                    max_lateness_hours |-> hours_of(max_lateness)]>>
    /\ pc' = "done"
    /\ UNCHANGED <<tasks, tasks_before, start_time, locals, memo, session_tasks>>

(***************************************************************************)
(* Callers of schedule_minimize_lateness.  Any caller may pass any list:   *)
(* the inputs are drawn from TaskLists and StartTimes.                     *)
(***************************************************************************)
Labelings == {"by_position", "uniform"}

\* The fields the sequencer never reads, as two ways of filling them in.  Under
\* "by_position" the ids are the positions and the priorities fall from 'baixa'
\* to 'alta'; under "uniform" every task carries the same id, name, priority
\* and client.
Labelled(i, duration_hours, deadline, k) ==
    IF k = "by_position"
    THEN Task(i, IF i % 2 = 1 THEN "Audiencia" ELSE "Contestacao",
              duration_hours, deadline, Priorities[3 - ((i - 1) % 3)], "")
    ELSE Task(1, "Peticao Inicial", duration_hours, deadline, "baixa", "Joao")

Relabelled(ts, k) ==
    [i \in 1..Len(ts) |-> Labelled(i, ts[i].duration_hours, ts[i].deadline, k)]

TaskLists ==
    UNION {{[i \in 1..n |-> Labelled(i, dd[i][1], dd[i][2], "by_position")] :
                dd \in [1..n -> Durations \X Deadlines]} :
           n \in 0..MaxTasks}

\* out = schedule_minimize_lateness(tasks, start): the first call of a run.
Call ==
    /\ pc = "idle"
    /\ \E ts \in TaskLists, st \in StartTimes : Invoke(ts, st)
    /\ UNCHANGED <<memo, session_tasks>>

\* The caller keeps the inputs and the dict of the call that has just returned.
Remember ==
    /\ pc = "done"
    /\ memo = <<>>
    /\ memo' = <<[tasks |-> tasks, start_time |-> start_time, result |-> result[1],
                  later |-> FALSE]>>
    /\ UNCHANGED <<tasks, tasks_before, start_time, locals, result, pc, session_tasks>>

\* A later call with the kept start time and the kept list, either as it is or
\* with its unread fields filled in the other way.
CallAgain ==
    /\ memo # <<>>
    /\ \E k \in Labelings : Invoke(Relabelled(memo[1].tasks, k), memo[1].start_time)
    /\ memo' = <<[memo[1] EXCEPT !.later = TRUE]>>
    /\ UNCHANGED session_tasks

\* A call in between, with other inputs: the empty list and any start time.
CallBetween ==
    /\ memo # <<>>
    /\ \E st \in StartTimes : Invoke(<<>>, st)
    /\ memo' = <<[memo[1] EXCEPT !.later = TRUE]>>
    /\ UNCHANGED session_tasks

(***************************************************************************)
(* app.py: the session's task list and the script run that follows every   *)
(* interaction.                                                            *)
(***************************************************************************)
\* st.session_state['tasks'] as first initialised: the three example tasks.
ExampleTasks ==
    << [id |-> 1, name |-> "Peticao Inicial", duration_hours |-> 4,
        deadline |-> at_hour(33), priority |-> "alta", client |-> "Joao"],
       [id |-> 2, name |-> "Audiencia", duration_hours |-> 2,
        deadline |-> at_hour(2), priority |-> "alta", client |-> "Maria"],
       [id |-> 3, name |-> "Contestacao", duration_hours |-> 3,
        deadline |-> at_hour(52), priority |-> "media", client |-> "Jose"] >>

\* What the user has typed into the widgets of a form when a button is pressed
\* (the sidebar form, or one row of the inline editor).
FormInputs ==
    { [name |-> "Recurso", duration_time |-> [hour |-> 1, minute |-> 0, second |-> 0],
       deadline |-> at_hour(1), client |-> "", priority |-> "alta"],
      [name |-> "Parecer", duration_time |-> [hour |-> 2, minute |-> 0, second |-> 0],
       deadline |-> at_hour(1), client |-> "Ana", priority |-> "baixa"],
      [name |-> "Recurso", duration_time |-> [hour |-> 0, minute |-> 0, second |-> 0],
       deadline |-> at_hour(2), client |-> "Ana", priority |-> "media"] }

\* dt.hour + dt.minute / 60.0 + dt.second / 3600.0
duration_of(dt) == dt.hour + (dt.minute \div 60) + (dt.second \div SecondsPerHour)

RECURSIVE max_default(_, _)
\* max([...], default=d)
max_default(s, d) ==
    IF s = <<>> THEN d
    ELSE LET m == max_default(Tail(s), Head(s)) IN IF Head(s) > m THEN Head(s) ELSE m

\* Mutant of next_id: the length of the list in place of the largest id.
next_id_by_length(ts) == Len(ts) + 1

\* next_id = max([t['id'] for t in tasks], default=0) + 1
next_id(ts) == max_default([i \in 1..Len(ts) |-> ts[i].id], 0) + 1

\* The list of Task objects built from the session's dicts (lines 195-205).
built_tasks(ts) ==
    [i \in 1..Len(ts) |->
        Task(ts[i].id, ts[i].name, ts[i].duration_hours, ts[i].deadline,
             ts[i].priority, ts[i].client)]

\* The rest of a script run once the session's list is `ts` (lines 181-307):
\* the start time is read from its widgets and, unless the list is empty, the
\* sequencer is called with the Task objects built from the list.
ScriptTail(ts) ==
    IF ts # <<>>
    THEN \E st \in StartTimes : Invoke(built_tasks(ts), st)
    ELSE /\ pc \in {"idle", "done"}
         /\ pc' = "idle"
         /\ UNCHANGED <<tasks, tasks_before, start_time, locals, result>>

\* 'Adicionar tarefa' (lines 54-71) and the rest of that script run.
AddTask ==
    /\ Len(session_tasks) < MaxSessionTasks
    /\ next_id(session_tasks) <= MaxId
    /\ \E f \in FormInputs :
          LET added == Append(session_tasks,
                  [id |-> next_id(session_tasks), name |-> f.name,
                   duration_hours |-> duration_of(f.duration_time),
                   deadline |-> f.deadline, priority |-> f.priority,
                   client |-> f.client])
          IN  /\ session_tasks' = added
              /\ ScriptTail(added)
    /\ UNCHANGED memo

\* 'Limpar tarefas' (lines 77-78) and the rest of that script run.
ClearTasks ==
    /\ session_tasks' = <<>>
    /\ ScriptTail(<<>>)
    /\ UNCHANGED memo

\* 'Salvar' on the row of an existing task (lines 156-172), then the rerun.
SaveTask ==
    /\ \E r \in 1..Len(session_tasks), f \in FormInputs :
          LET row == session_tasks[r]
              saved == [j \in 1..Len(session_tasks) |->
                  IF session_tasks[j].id = row.id
                  THEN [id |-> session_tasks[j].id, name |-> f.name,
                        duration_hours |-> duration_of(f.duration_time),
                        deadline |-> f.deadline, priority |-> f.priority,
                        client |-> f.client]
                  ELSE session_tasks[j]]
          IN  /\ session_tasks' = saved
              /\ ScriptTail(saved)
    /\ UNCHANGED memo

\* 'Remover' on the row of an existing task (lines 174-177), then the rerun.
RemoveTask ==
    /\ \E r \in 1..Len(session_tasks) :
          LET row == session_tasks[r]
              kept == SelectSeq(session_tasks, LAMBDA t : t.id # row.id)
          IN  /\ session_tasks' = kept
              /\ ScriptTail(kept)
    /\ UNCHANGED memo

\* A script run with no button pressed (another widget changed).
Rerun ==
    /\ ScriptTail(session_tasks)
    /\ UNCHANGED <<session_tasks, memo>>

Init ==
    /\ tasks = <<>>
    /\ tasks_before = <<>>
    /\ start_time = 0
    /\ ordered_tasks = <<>>
    /\ current_time = 0
    /\ results = <<>>
    /\ total_lateness = 0
    /\ max_lateness = 0
    /\ idx = 1
    /\ result = <<>>
    /\ pc = "idle"
    /\ memo = <<>>
    /\ session_tasks = <<>>

Next == Call \/ LoopStep \/ Return \/ Remember \/ CallAgain \/ CallBetween

Spec == Init /\ [][Next]_vars

InitApp ==
    /\ tasks = <<>>
    /\ tasks_before = <<>>
    /\ start_time = 0
    /\ ordered_tasks = <<>>
    /\ current_time = 0
    /\ results = <<>>
    /\ total_lateness = 0
    /\ max_lateness = 0
    /\ idx = 1
    /\ result = <<>>
    /\ pc = "idle"
    /\ memo = <<>>
    /\ session_tasks = ExampleTasks

NextApp ==
    AddTask \/ ClearTasks \/ SaveTask \/ RemoveTask \/ Rerun \/ LoopStep \/ Return

SpecApp == InitApp /\ [][NextApp]_vars

(***************************************************************************)
(* Properties.  `done` is the state in which a call has returned; `plan`   *)
(* is the dict it returned.                                                *)
(***************************************************************************)
done == pc = "done"

plan == result[1]

\* The Task a result item refers to.
task_of(item) == tasks[item.task]

Positions(s) == 1..Len(s)

\* C1: the 'ordered' list is the stable sort of the input by deadline: it has
\* the length of the input, holds every input task exactly once, its deadlines
\* never decrease, and tasks of equal deadline keep their input order.
C1_OrderedIsStableSortByDeadline ==
    done =>
        LET o == plan.ordered
        IN  /\ Len(o) = Len(tasks)
            /\ \A p \in Positions(tasks) :
                   Cardinality({i \in Positions(o) : o[i].task = p}) = 1
            /\ \A i, j \in Positions(o) :
                   i < j =>
                      /\ task_of(o[i]).deadline <= task_of(o[j]).deadline
                      /\ task_of(o[i]).deadline = task_of(o[j]).deadline
                            => o[i].task < o[j].task

\* C1 witness: a returned plan of three tasks in which the sort moved a task
\* forward and two tasks share a deadline.
C1_Witness ==
    /\ done
    /\ Len(tasks) = 3
    /\ plan.ordered[1].task # 1
    /\ \E i, j \in Positions(tasks) : i < j /\ tasks[i].deadline = tasks[j].deadline

\* The maximum lateness, in hours, of running ts back to back from `now` in the
\* order p (a sequence of positions of ts), from its i-th element on.
RECURSIVE max_lateness_of_order(_, _, _, _)
max_lateness_of_order(ts, p, i, now) ==
    IF i > Len(p) THEN 0
    ELSE LET finish == now + ts[p[i]].duration_hours * SecondsPerHour
             late == IF finish > ts[p[i]].deadline
                     THEN (finish - ts[p[i]].deadline) \div SecondsPerHour ELSE 0
             rest == max_lateness_of_order(ts, p, i + 1, finish)
         IN  IF late > rest THEN late ELSE rest

no_negative_duration == \A i \in Positions(tasks) : tasks[i].duration_hours >= 0

\* C2: when no duration is negative, no order of the input tasks, run back to
\* back from start_time, has a smaller maximum lateness than the returned
\* max_lateness_hours.
C2_EDFMinimizesMaxLateness ==
    (done /\ no_negative_duration) =>
        \A p \in Permutations(Positions(tasks)) :
            max_lateness_of_order(tasks, p, 1, start_time) >= plan.max_lateness_hours

\* C2 witness: a returned plan with some lateness, for three tasks that EDF
\* reordered, where another order is strictly worse.
C2_Witness ==
    /\ done
    /\ no_negative_duration
    /\ Len(tasks) = 3
    /\ plan.max_lateness_hours > 0
    /\ plan.ordered[1].task # 1
    /\ max_lateness_of_order(tasks, <<1, 2, 3>>, 1, start_time) > plan.max_lateness_hours

\* C3: the items are packed back to back from start_time: the first starts at
\* start_time, each finishes its task's duration after it starts, and each
\* later one starts when the one before it finishes.
C3_SequentialPacking ==
    done =>
        LET o == plan.ordered
        IN  /\ o # <<>> => o[1].start = start_time
            /\ \A i \in Positions(o) :
                   /\ o[i].finish = o[i].start + task_of(o[i]).duration_hours * SecondsPerHour
                   /\ i > 1 => o[i].start = o[i - 1].finish

\* C3 witness: a returned plan of three tasks, each of which takes time.
C3_Witness ==
    /\ done
    /\ Len(plan.ordered) = 3
    /\ \A i \in Positions(tasks) : tasks[i].duration_hours > 0

\* C4: every item's lateness_hours is max(0, finish - deadline) in hours: never
\* negative, 0 when the task finishes on or before its deadline, and the whole
\* difference when it finishes after it.
C4_LatenessIsClampedOverrun ==
    done =>
        \A i \in Positions(plan.ordered) :
            LET item == plan.ordered[i]
                deadline == task_of(item).deadline
            IN  /\ item.lateness_hours >= 0
                /\ item.finish <= deadline => item.lateness_hours = 0
                /\ item.finish > deadline =>
                       item.lateness_hours * SecondsPerHour = item.finish - deadline

\* C4 witness: a returned plan in which one task was already past its deadline
\* at start_time and is late, and another finishes exactly at its deadline.
C4_Witness ==
    /\ done
    /\ \E i, j \in Positions(plan.ordered) :
           /\ task_of(plan.ordered[i]).deadline < start_time
           /\ plan.ordered[i].lateness_hours > 0
           /\ plan.ordered[j].finish = task_of(plan.ordered[j]).deadline
           /\ plan.ordered[j].lateness_hours = 0

RECURSIVE sum_of_lateness(_)
sum_of_lateness(o) ==
    IF o = <<>> THEN 0 ELSE Head(o).lateness_hours + sum_of_lateness(Tail(o))

\* max(item lateness, default=0)
greatest_lateness(o) ==
    IF o = <<>> THEN 0
    ELSE CHOOSE m \in {o[i].lateness_hours : i \in Positions(o)} :
             \A i \in Positions(o) : o[i].lateness_hours <= m

\* C5: total_lateness_hours is the sum of the items' lateness_hours, and
\* max_lateness_hours is the greatest of them, or 0 when there is no item.
C5_AggregatesAgreeWithItems ==
    done =>
        /\ plan.total_lateness_hours = sum_of_lateness(plan.ordered)
        /\ plan.max_lateness_hours = greatest_lateness(plan.ordered)

\* C5 witness: a returned plan with two late items, the later of which is less
\* late than the earlier.
C5_Witness ==
    /\ done
    /\ \E i, j \in Positions(plan.ordered) :
           /\ i < j
           /\ plan.ordered[j].lateness_hours > 0
           /\ plan.ordered[i].lateness_hours > plan.ordered[j].lateness_hours

\* C6: a call with the empty list runs to its return, and returns an empty
\* 'ordered' list, total_lateness_hours 0 and max_lateness_hours 0.
C6_EmptyInputGivesEmptyPlan ==
    /\ (pc = "loop" /\ tasks = <<>>) => ENABLED Return
    /\ (done /\ tasks = <<>>) =>
           plan = [ordered |-> <<>>, total_lateness_hours |-> 0, max_lateness_hours |-> 0]

\* C6 witness: a call with the empty list has returned, at a start time other
\* than the epoch, after an earlier call whose plan had lateness.
C6_Witness ==
    /\ done
    /\ tasks = <<>>
    /\ start_time # 0
    /\ memo # <<>>
    /\ memo[1].result.total_lateness_hours > 0

\* C7: during and after a call the caller's list is as it was before the call:
\* same length, same order, every field of every Task the same.
C7_CallerListUnchanged ==
    pc \in {"loop", "done"} => tasks = tasks_before

\* C7 witness: a call has returned whose plan is in another order than the
\* caller's list.
C7_Witness ==
    /\ done
    /\ Len(tasks) = 3
    /\ \E i \in Positions(plan.ordered) : plan.ordered[i].task # i

\* The inputs of the call that has returned and of the kept earlier call agree
\* in start time and, position by position, in duration and deadline.
same_timing_as_kept ==
    /\ memo # <<>>
    /\ start_time = memo[1].start_time
    /\ Len(tasks) = Len(memo[1].tasks)
    /\ \A i \in Positions(tasks) :
           /\ tasks[i].duration_hours = memo[1].tasks[i].duration_hours
           /\ tasks[i].deadline = memo[1].tasks[i].deadline

\* C8: a call with the inputs of an earlier call returns what the earlier call
\* returned, whatever calls were made in between.
C8_SameInputsSameResult ==
    (done /\ memo # <<>> /\ tasks = memo[1].tasks /\ start_time = memo[1].start_time)
        => plan = memo[1].result

\* C8 witness: a later call with the kept inputs, three tasks and some
\* lateness, has returned.
C8_Witness ==
    /\ done
    /\ memo # <<>>
    /\ memo[1].later
    /\ tasks = memo[1].tasks
    /\ start_time = memo[1].start_time
    /\ Len(tasks) = 3
    /\ plan.total_lateness_hours > 0

\* C9: two calls whose lists agree position by position in duration and
\* deadline, with the same start time, give the same order of positions, the
\* same start, finish and lateness of every item, and the same two aggregates,
\* whatever the ids, names, priorities and clients are.
C9_LabelsDoNotInfluenceSchedule ==
    (done /\ same_timing_as_kept) =>
        LET o == plan.ordered
            k == memo[1].result.ordered
        IN  /\ Len(o) = Len(k)
            /\ \A i \in Positions(o) :
                   /\ o[i].task = k[i].task
                   /\ o[i].start = k[i].start
                   /\ o[i].finish = k[i].finish
                   /\ o[i].lateness_hours = k[i].lateness_hours
            /\ plan.total_lateness_hours = memo[1].result.total_lateness_hours
            /\ plan.max_lateness_hours = memo[1].result.max_lateness_hours

\* C9 witness: a later call has returned whose list has the kept durations and
\* deadlines, two of them equal deadlines, and other priorities, ids, names and
\* clients.
C9_Witness ==
    /\ done
    /\ same_timing_as_kept
    /\ memo[1].later
    /\ Len(tasks) = 3
    /\ \E i, j \in Positions(tasks) : i < j /\ tasks[i].deadline = tasks[j].deadline
    /\ \E i \in Positions(tasks) : tasks[i].priority # memo[1].tasks[i].priority
    /\ \E i \in Positions(tasks) : tasks[i].client # memo[1].tasks[i].client
    /\ \E i \in Positions(tasks) : tasks[i].name # memo[1].tasks[i].name
    /\ \E i \in Positions(tasks) : tasks[i].id # memo[1].tasks[i].id

distinct_ids(ts) == \A i, j \in Positions(ts) : i # j => ts[i].id # ts[j].id

\* C10: in the app the ids of the session's tasks are pairwise distinct, and so
\* are the ids of the Tasks passed to the sequencer.
C10_SessionIdsDistinct ==
    /\ distinct_ids(session_tasks)
    /\ pc \in {"loop", "done"} => distinct_ids(tasks)

\* C10 witness: after removals and additions the session holds the tasks 2, 4
\* and 5, and they have been scheduled.
C10_Witness ==
    /\ done
    /\ Len(session_tasks) = 3
    /\ session_tasks[1].id = 2
    /\ session_tasks[2].id = 4
    /\ session_tasks[3].id = 5
    /\ Len(tasks) = 3

====
